---- MODULE Spec2Model ----
(***************************************************************************)
(* Model of the Verint attachment resolver of src/app.py:                  *)
(* fetch_verint_image_v3 (with its st.cache_data memoisation) and the      *)
(* gallery loop of main that calls it.                                     *)
(*                                                                         *)
(* Text is modelled as a sequence of one-character strings, so split,      *)
(* strip, lower, endswith and base64 decoding are computed, not assumed.   *)
(* URLs are records of tokens (host, path, query pairs); bytes are         *)
(* sequences of integers 0..255.                                           *)
(***************************************************************************)
EXTENDS Integers, Sequences, FiniteSets, TLC

VARIABLES
    pc,              \* position of the script run that is on the processor
    caller,          \* "main" (gallery loop) or "direct" (a call of the resolver)
    arg,             \* wrapper_url / raw_url of the current call
    now,             \* wall clock, seconds
    cache,           \* st.cache_data store: input -> [has, value, at]
    hist,            \* history: input -> last value the function body returned, and when
    prior,           \* history entry of arg as it stood when the current call was made
    net,             \* requests issued by the current call, in order
    result,          \* value the current call returned to its caller
    raised,          \* an exception left the current call
    retLine,         \* source line of the return statement that ended the body (0: none)
    url_case_id,     \* locals of fetch_verint_image_v3
    formref,
    csrf_token,
    headers,
    filename_str,
    target_filename,
    b64_data,
    img_bytes,
    shown,           \* value main last passed to st.image
    calls,           \* number of calls made so far
    probe_in,        \* input of a function applied on its own
    probe_out,       \* what the function gave for it
    session,         \* cookie held by the requests.Session of the running call
    parked           \* frame of a second script run that is not on the processor

vars == <<pc, caller, arg, now, cache, hist, prior, net, result, raised, retLine,
          url_case_id, formref, csrf_token, headers, filename_str,
          target_filename, b64_data, img_bytes, shown, calls,
          probe_in, probe_out, session, parked>>

----------------------------------------------------------------------------
(* Bounds of the model *)

MaxCalls == 2
MaxFiles == 2

(* Program constants *)

TTL == 3600
HttpOk == 200

\* the clock moves in half-ttl steps, up to one ttl
TickStep == TTL \div 2
MaxNow == TTL

----------------------------------------------------------------------------
(* Values *)

NoneTok == "None"

\* Python None as a return value, and a bytes object
None == [ok |-> FALSE, bytes |-> <<>>]
Bytes(b) == [ok |-> TRUE, bytes |-> b]

\* Python truthiness of a returned value: None and b"" are falsy
Truthy(v) == v.ok /\ v.bytes # <<>>

----------------------------------------------------------------------------
(* Text helpers: str methods over sequences of characters *)

LowerChar(c) ==
    CASE c = "M" -> "m"
      [] c = "J" -> "j"
      [] c = "P" -> "p"
      [] c = "G" -> "g"
      [] c = "N" -> "n"
      [] OTHER -> c

Lower(s) == [i \in DOMAIN s |-> LowerChar(s[i])]

EndsWith(s, suf) ==
    /\ Len(s) >= Len(suf)
    /\ SubSeq(s, Len(s) - Len(suf) + 1, Len(s)) = suf

RECURSIVE LStrip(_)
LStrip(s) == IF s # <<>> /\ Head(s) = " " THEN LStrip(Tail(s)) ELSE s

RECURSIVE RStrip(_)
RStrip(s) ==
    IF s # <<>> /\ s[Len(s)] = " " THEN RStrip(SubSeq(s, 1, Len(s) - 1)) ELSE s

Strip(s) == RStrip(LStrip(s))

HasChar(s, c) == \E i \in DOMAIN s : s[i] = c

\* str.split(sep) for a one-character separator: always at least one piece
RECURSIVE SplitFrom(_, _, _)
SplitFrom(s, sep, cur) ==
    IF s = <<>> THEN <<cur>>
    ELSE IF Head(s) = sep THEN <<cur>> \o SplitFrom(Tail(s), sep, <<>>)
    ELSE SplitFrom(Tail(s), sep, Append(cur, Head(s)))

Split(s, sep) == SplitFrom(s, sep, <<>>)

\* ";".join(names)
RECURSIVE Join(_, _)
Join(names, sep) ==
    IF names = <<>> THEN <<>>
    ELSE IF Len(names) = 1 THEN names[1]
    ELSE names[1] \o <<sep>> \o Join(Tail(names), sep)

----------------------------------------------------------------------------
(* Step 5, FILTER MAPS: the filename selector *)

NoFile == <<>>

SufMJpg == <<"m", ".", "j", "p", "g">>
SufMapJpg == <<"_", "m", "a", "p", ".", "j", "p", "g">>
SufMapJpeg == <<"_", "m", "a", "p", ".", "j", "p", "e", "g">>
SufJpg == <<".", "j", "p", "g">>
SufJpeg == <<".", "j", "p", "e", "g">>
SufPng == <<".", "p", "n", "g">>

\* line 113: the names the loop skips as map thumbnails
IsMapName(f_lower) ==
    \/ EndsWith(f_lower, SufMJpg)
    \/ EndsWith(f_lower, SufMapJpg)
    \/ EndsWith(f_lower, SufMapJpeg)

\* line 115: the image extensions the loop accepts
HasImageExt(f_lower) ==
    \/ EndsWith(f_lower, SufJpg)
    \/ EndsWith(f_lower, SufJpeg)
    \/ EndsWith(f_lower, SufPng)

\* lines 107-117: for fname in raw_files, first acceptable name wins (break)
RECURSIVE FilterMaps(_)
FilterMaps(raw_files) ==
    IF raw_files = <<>> THEN NoFile
    ELSE LET fname == Strip(Head(raw_files))
             f_lower == Lower(fname)
         IN IF fname = <<>> THEN FilterMaps(Tail(raw_files))
            ELSE IF IsMapName(f_lower) THEN FilterMaps(Tail(raw_files))
            ELSE IF HasImageExt(f_lower) THEN fname
            ELSE FilterMaps(Tail(raw_files))

\* variant: with no acceptable name, the last listed name is taken
SelectFilenameFallback(fstr) ==
    IF fstr = <<>> THEN NoFile
    ELSE LET files == Split(fstr, ";")
         IN IF FilterMaps(files) # NoFile THEN FilterMaps(files)
            ELSE Strip(files[Len(files)])

\* lines 103-119 as one function of the listing's filename string:
\* an empty string returns before the split, otherwise split and filter
SelectFilename(fstr) ==
    IF fstr = <<>> THEN NoFile ELSE FilterMaps(Split(fstr, ";"))

----------------------------------------------------------------------------
(* Step 7, UNWRAP: data-URI marker and base64 decoding *)

B64Alphabet ==
    <<
    "A", "B", "C", "D", "E", "F", "G", "H", "I", "J", "K", "L", "M", "N", "O", "P",
    "Q", "R", "S", "T", "U", "V", "W", "X", "Y", "Z", "a", "b", "c", "d", "e", "f",
    "g", "h", "i", "j", "k", "l", "m", "n", "o", "p", "q", "r", "s", "t", "u", "v",
    "w", "x", "y", "z", "0", "1", "2", "3", "4", "5", "6", "7", "8", "9", "+", "/"
    >>

B64Pad == "="

IsB64Char(c) == \E i \in DOMAIN B64Alphabet : B64Alphabet[i] = c

B64Val(c) == (CHOOSE i \in DOMAIN B64Alphabet : B64Alphabet[i] = c) - 1

\* base64.b64decode(s) with validate=False, as binascii.a2b_base64 runs it:
\* quad is the position in the current group of four, pads the run of "="
\* seen, left the bits carried over, out the bytes produced so far.
\* Characters outside the alphabet are skipped; a pad that completes the
\* group ends the input; data left in an incomplete group is an error.
RECURSIVE B64Run(_, _, _, _, _)
B64Run(s, quad, pads, left, out) ==
    IF s = <<>> THEN [err |-> quad # 0, bytes |-> out]
    ELSE LET c == Head(s)
             rest == Tail(s)
         IN IF c = B64Pad
            THEN IF quad >= 2 /\ quad + pads + 1 >= 4
                 THEN [err |-> FALSE, bytes |-> out]
                 ELSE B64Run(rest, quad, IF quad >= 2 THEN pads + 1 ELSE pads, left, out)
            ELSE IF ~IsB64Char(c) THEN B64Run(rest, quad, pads, left, out)
            ELSE LET v == B64Val(c)
                 IN CASE quad = 0 -> B64Run(rest, 1, 0, v, out)
                      [] quad = 1 ->
                           B64Run(rest, 2, 0, v % 16, Append(out, left * 4 + v \div 16))
                      [] quad = 2 ->
                           B64Run(rest, 3, 0, v % 4, Append(out, left * 16 + v \div 4))
                      [] OTHER ->
                           B64Run(rest, 0, 0, 0, Append(out, left * 64 + v))

B64Decode(s) == B64Run(s, 0, 0, 0, <<>>)

\* variant: the piece before the comma is kept
StripMarkerFirst(b64) == IF HasChar(b64, ",") THEN Split(b64, ",")[1] ELSE b64

\* line 136: if "," in b64_data: b64_data = b64_data.split(",")[1]
StripMarker(b64) == IF HasChar(b64, ",") THEN Split(b64, ",")[2] ELSE b64

\* lines 136-138: marker handling followed by the decode
DecodePayload(b64) == B64Decode(StripMarker(b64))

\* lines 141-143: Image.open(...).verify() accepts the bytes.  The image
\* library is modelled by its signature test: a JPEG start-of-image marker
\* followed by the start of a segment.
JpegMagic == <<255, 216, 255>>

ImageVerifies(b) == Len(b) >= Len(JpegMagic) /\ SubSeq(b, 1, Len(JpegMagic)) = JpegMagic

----------------------------------------------------------------------------
(* Inputs: the media_url values of the records *)

VendorHost == "sanfrancisco.form.us.empro.verintcloudservices.com"

Url(host, path, query) == [isStr |-> TRUE, host |-> host, path |-> path, query |-> query]

\* a media_url that is not a str (a float NaN, None)
NonStr == [isStr |-> FALSE, host |-> "", path |-> "", query |-> <<>>]

UrlA == Url(VendorHost, "form", << <<"caseid", "c1">> >>)
UrlB == Url(VendorHost, "form", << <<"caseid", "c1">>, <<"v", "2">> >>)
UrlNoCase == Url(VendorHost, "form", << <<"v", "2">>, <<"caseid", "">> >>)
UrlPlain == Url("example.com", "a.jpg", <<>>)
UrlSpoof == Url("example.com", "a.jpg", << <<"caseid", "c1">>, <<"ref", "verintcloudservices">> >>)

Inputs == {UrlA, UrlB, UrlNoCase, UrlPlain, UrlSpoof, NonStr}

\* the pieces of text a URL is made of
UrlTokens(u) ==
    {u.host, u.path} \cup UNION {{u.query[i][1], u.query[i][2]} : i \in DOMAIN u.query}

\* line 41: "verint" in wrapper_url
HasVerint(u) ==
    UrlTokens(u) \cap {VendorHost, "verintcloudservices", "verint.example.org"} # {}

\* line 266: "verintcloudservices" in raw_url
HasVerintCloud(u) == UrlTokens(u) \cap {VendorHost, "verintcloudservices"} # {}

\* lines 52-54: parse_qs drops blank values; the first value of caseid, or None
RECURSIVE CaseIdOf(_)
CaseIdOf(query) ==
    IF query = <<>> THEN NoneTok
    ELSE IF Head(query)[1] = "caseid" /\ Head(query)[2] # "" THEN Head(query)[2]
    ELSE CaseIdOf(Tail(query))

----------------------------------------------------------------------------
(* What the portal can answer *)

Resp(exc, status, kind, text, html, auth, cookie) ==
    [exc |-> exc, status |-> status, kind |-> kind, text |-> text, html |-> html,
     auth |-> auth, cookie |-> cookie]

\* a timeout or connection error: requests raises
NetError == Resp(TRUE, 0, "none", <<>>, <<>>, NoneTok, NoneTok)

FormRefTag(v) == [k |-> "formref", v |-> v]
CsrfTag(v) == [k |-> "csrf", v |-> v]

\* the page as the sequence of the token-bearing fragments in it
Htmls ==
    { <<>>,
      <<FormRefTag("F1")>>,
      <<CsrfTag("T1")>>,
      <<CsrfTag("T1"), FormRefTag("F2")>> }


\* lines 62-67: re.search returns the first match, or None
RECURSIVE FirstTag(_, _)
FirstTag(html, k) ==
    IF html = <<>> THEN NoneTok
    ELSE IF Head(html).k = k THEN Head(html).v
    ELSE FirstTag(Tail(html), k)

\* the portal opens a session, with its cookie, where it hands out a CSRF token
CookieWith(html) == IF FirstTag(html, "csrf") = NoneTok THEN NoneTok ELSE "K1"

PageResponses ==
    {NetError} \cup
    {Resp(FALSE, st, "html", <<>>, h, NoneTok, CookieWith(h)) : st \in {HttpOk, 404}, h \in Htmls}

CitizenResponses ==
    {NetError, Resp(FALSE, 500, "none", <<>>, <<>>, NoneTok, NoneTok)}
    \cup {Resp(FALSE, HttpOk, "none", <<>>, <<>>, a, NoneTok) : a \in {NoneTok, "A1"}}

\* file names the portal lists
NamePhoto == <<"p", "1", ".", "j", "p", "g">>
NamePng == <<"P", "2", ".", "P", "N", "G">>
NameMap == <<"a", "_", "m", "a", "p", ".", "j", "p", "g">>
NameBareM == <<"c", "_", "M", ".", "j", "p", "g">>
NameMapJpeg == <<"b", "_", "m", "a", "p", ".", "j", "p", "e", "g">>
NameMapPng == <<"e", "_", "m", "a", "p", ".", "p", "n", "g">>
NameDoc == <<"d", ".", "p", "d", "f">>
NameBlank == <<" ">>
NamePadded == <<" ", "q", ".", "j", "p", "e", "g", " ">>

RECURSIVE SeqsUpTo(_, _)
SeqsUpTo(S, n) ==
    IF n = 0 THEN {<<>>}
    ELSE LET shorter == SeqsUpTo(S, n - 1)
         IN shorter \cup {Append(q, x) : q \in shorter, x \in S}

ListedNames == {NamePhoto, NameMap, NameDoc, NameBlank}

\* formdata_filenames: the names joined with ";"
FilenameStrs == {Join(m, ";") : m \in SeqsUpTo(ListedNames, MaxFiles)}

\* JSON bodies: "malformed" makes .json() raise, "nodata" is {}, "nofield" is
\* {"data": {}}, "badtype" holds a number where text is expected, "text" holds
\* the field
JsonResponses(texts) ==
    {Resp(FALSE, HttpOk, k, <<>>, <<>>, NoneTok, NoneTok) : k \in {"malformed", "nodata", "nofield", "badtype"}}
    \cup {Resp(FALSE, HttpOk, "text", t, <<>>, NoneTok, NoneTok) : t \in texts}

ListResponses ==
    {NetError, Resp(FALSE, 500, "none", <<>>, <<>>, NoneTok, NoneTok)} \cup JsonResponses(FilenameStrs)

\* txt_file payloads: a JPEG header, the same with a data-URI marker, a
\* truncated one, a well-formed encoding of something that is no image,
\* a wrongly padded one, and the empty string
PayloadJpeg == <<"/", "9", "j", "/">>
PayloadZeros == <<"A", "A", "A", "A">>
PayloadCut == <<"/", "9", "j", "/", "A">>
PayloadShort == <<"/", "9", "=", "=">>
MarkerJpeg == <<"d", "a", "t", "a", ":", "i", "m", "g", ";", "b", "a", "s", "e", "6", "4", ",">>

TxtFiles ==
    {PayloadJpeg, MarkerJpeg \o PayloadJpeg, PayloadZeros, PayloadCut, PayloadShort, <<>>}

DownloadResponses ==
    {NetError, Resp(FALSE, 500, "none", <<>>, <<>>, NoneTok, NoneTok)} \cup JsonResponses(TxtFiles)

----------------------------------------------------------------------------
(* st.cache_data(ttl=3600): memoisation keyed by the argument *)

NoEntry == [has |-> FALSE, value |-> None, at |-> 0]

\* nothing known of the argument: no call is under way
NoPrior == [stored |-> FALSE, has |-> FALSE, value |-> None, at |-> 0]

\* variant: an entry is served however old it is
CacheLiveForever(e, t) == e.has

\* an entry is served while its age is below the ttl
CacheLive(e, t) == e.has /\ t - e.at < TTL

\* variant: only a value that is truthy is stored
CachePutTruthy(c, u, v, t) ==
    IF Truthy(v) THEN [c EXCEPT ![u] = [has |-> TRUE, value |-> v, at |-> t]] ELSE c

\* the decorator stores whatever the function returned, None included
CachePut(c, u, v, t) == [c EXCEPT ![u] = [has |-> TRUE, value |-> v, at |-> t]]

----------------------------------------------------------------------------
(* Exception handlers of fetch_verint_image_v3 *)

\* variant: the outer try block ends before the listing's answer is read
HandlerOfNarrow(line) ==
    IF line \in 142..143 THEN 145
    ELSE IF line \in 133..144 THEN 147
    ELSE IF line \in 71..78 THEN 79
    ELSE IF line \in 45..94 THEN 150
    ELSE 0

\* variant: the citizen request has no try of its own
HandlerOfNoInnerTry(line) ==
    IF line \in 142..143 THEN 145
    ELSE IF line \in 133..144 THEN 147
    ELSE IF line \in 45..149 THEN 150
    ELSE 0

\* the except clause that catches an exception raised at a source line
\* (0: none, the exception leaves the function)
HandlerOf(line) ==
    IF line \in 142..143 THEN 145
    ELSE IF line \in 133..144 THEN 147
    ELSE IF line \in 71..78 THEN 79
    ELSE IF line \in 45..149 THEN 150
    ELSE 0

----------------------------------------------------------------------------
(* State machine *)

NoHeaders == [csrf |-> NoneTok, auth |-> NoneTok]

NoShow == [isBytes |-> FALSE, url |-> NonStr, bytes |-> <<>>]
ShowUrl(u) == [isBytes |-> FALSE, url |-> u, bytes |-> <<>>]
ShowBytes(b) == [isBytes |-> TRUE, url |-> NonStr, bytes |-> b]

\* one request on the wire, with the answer it got
Request(name, hdrs, fname, resp) ==
    [req |-> name, csrf |-> hdrs.csrf, auth |-> hdrs.auth, cookie |-> session,
     caseid |-> url_case_id, formref |-> formref, filename |-> fname, resp |-> resp]

\* a script run that has not started a record
IdleFrame ==
    [pc |-> "idle", caller |-> "direct", arg |-> NonStr, prior |-> NoPrior, net |-> <<>>,
     result |-> None, raised |-> FALSE, retLine |-> 0, shown |-> NoShow,
     url_case_id |-> NoneTok, formref |-> NoneTok, csrf_token |-> NoneTok,
     headers |-> NoHeaders, session |-> NoneTok, filename_str |-> <<>>,
     target_filename |-> NoFile, b64_data |-> <<>>, img_bytes |-> <<>>]

\* no function is being applied on its own
NoProbeIn == [fn |-> "none", text |-> <<>>, marker |-> <<>>]
NoDecoded == [err |-> FALSE, bytes |-> <<>>]
NoProbeOut == [done |-> FALSE, file |-> NoFile, marked |-> NoDecoded, plain |-> NoDecoded]

Init ==
    /\ pc = "idle"
    /\ caller = "direct"
    /\ arg = NonStr
    /\ now = 0
    /\ cache = [u \in Inputs |-> NoEntry]
    /\ hist = [u \in Inputs |-> NoEntry]
    /\ prior = NoPrior
    /\ net = <<>>
    /\ result = None
    /\ raised = FALSE
    /\ retLine = 0
    /\ url_case_id = NoneTok
    /\ formref = NoneTok
    /\ csrf_token = NoneTok
    /\ headers = NoHeaders
    /\ session = NoneTok
    /\ filename_str = <<>>
    /\ target_filename = NoFile
    /\ b64_data = <<>>
    /\ img_bytes = <<>>
    /\ shown = NoShow
    /\ calls = 0
    /\ probe_in = NoProbeIn
    /\ probe_out = NoProbeOut
    /\ parked = IdleFrame

\* what a script run holds of its own: its position, the call under way and
\* the locals of fetch_verint_image_v3 (session and headers are made at lines 45-49)
Frame ==
    [pc |-> pc, caller |-> caller, arg |-> arg, prior |-> prior, net |-> net,
     result |-> result, raised |-> raised, retLine |-> retLine, shown |-> shown,
     url_case_id |-> url_case_id, formref |-> formref, csrf_token |-> csrf_token,
     headers |-> headers, session |-> session, filename_str |-> filename_str,
     target_filename |-> target_filename, b64_data |-> b64_data, img_bytes |-> img_bytes]

Locals == <<url_case_id, formref, csrf_token, headers, session, filename_str,
            target_filename, b64_data, img_bytes>>

ClearLocals ==
    /\ url_case_id' = NoneTok
    /\ formref' = NoneTok
    /\ csrf_token' = NoneTok
    /\ headers' = NoHeaders
    /\ session' = NoneTok
    /\ filename_str' = <<>>
    /\ target_filename' = NoFile
    /\ b64_data' = <<>>
    /\ img_bytes' = <<>>

\* a return statement at a source line: the body ends, its locals die, and
\* the decorator (line 36) stores the value before handing it to the caller
Return(v, line) ==
    /\ pc' = "returned"
    /\ result' = v
    /\ retLine' = line
    /\ raised' = FALSE
    /\ cache' = CachePut(cache, arg, v, now)
    /\ hist' = [hist EXCEPT ![arg] = [has |-> TRUE, value |-> v, at |-> now]]
    /\ ClearLocals

\* variant: the handlers give the exception back to the caller
ThrowReraises(line) ==
    /\ pc' = "returned"
    /\ result' = None
    /\ retLine' = 0
    /\ raised' = TRUE
    /\ UNCHANGED <<cache, hist>>
    /\ ClearLocals

\* an exception raised at a source line, where the handler that catches it
\* returns None (lines 146, 148, 150); with no handler it leaves the function
Throw(line) ==
    LET h == HandlerOf(line)
    IN IF h = 0
       THEN /\ pc' = "returned"
            /\ result' = None
            /\ retLine' = 0
            /\ raised' = TRUE
            /\ UNCHANGED <<cache, hist>>
            /\ ClearLocals
       ELSE Return(None, IF h = 145 THEN 146 ELSE IF h = 147 THEN 148 ELSE h)

\* line 36-37: the decorated function is called: a live entry is returned
\* without running the body, otherwise the body runs
Enter(u) ==
    /\ calls < MaxCalls
    /\ calls' = calls + 1
    /\ arg' = u
    /\ prior' = [stored |-> hist[u].has, has |-> hist[u].has /\ now - hist[u].at < TTL,
                 value |-> hist[u].value, at |-> hist[u].at]
    /\ net' = <<>>
    /\ raised' = FALSE
    /\ retLine' = 0
    /\ IF CacheLive(cache[u], now)
       THEN /\ pc' = "returned"
            /\ result' = cache[u].value
       ELSE /\ pc' = "body"
            /\ result' = None
    /\ UNCHANGED <<now, cache, hist, Locals>>

\* a call of the resolver on its own
DirectCall(u) ==
    /\ UNCHANGED <<probe_in, probe_out, parked>>
    /\ pc = "idle"
    /\ caller' = "direct"
    /\ shown' = NoShow
    /\ Enter(u)

\* lines 258-267 and 279: one record of the gallery loop, up to the call of
\* the resolver, or to st.image when the resolver is not called
MainRow(u) ==
    /\ UNCHANGED <<probe_in, probe_out, parked>>
    /\ pc = "idle"
    /\ IF u.isStr /\ HasVerintCloud(u)
       THEN /\ caller' = "main"
            /\ shown' = NoShow
            /\ Enter(u)
       ELSE /\ calls < MaxCalls
            /\ calls' = calls + 1
            /\ caller' = "main"
            /\ arg' = u
            /\ shown' = ShowUrl(u)
            /\ pc' = "render"
            /\ prior' = NoPrior
            /\ net' = <<>>
            /\ result' = None
            /\ raised' = FALSE
            /\ retLine' = 0
            /\ UNCHANGED <<now, cache, hist, Locals>>

\* lines 41-42
Guard ==
    /\ UNCHANGED <<probe_in, probe_out, parked>>
    /\ pc = "body"
    /\ IF ~arg.isStr \/ ~HasVerint(arg)
       THEN Return(None, 42)
       ELSE /\ pc' = "sync"
            /\ UNCHANGED <<cache, hist, result, retLine, raised, Locals>>
    /\ UNCHANGED <<caller, arg, now, prior, net, shown, calls>>

\* lines 45-55: session, headers, case id
SyncId ==
    /\ UNCHANGED <<probe_in, probe_out, parked>>
    /\ pc = "sync"
    /\ LET id == CaseIdOf(arg.query)
       IN IF id = NoneTok
          THEN Return(None, 55)
          ELSE /\ pc' = "page"
               /\ url_case_id' = id
               /\ UNCHANGED <<cache, hist, result, retLine, raised, formref, csrf_token, headers,
                              session, filename_str, target_filename, b64_data, img_bytes>>
    /\ UNCHANGED <<caller, arg, now, prior, net, shown, calls>>

\* variant: a page without a form reference is not a reason to stop
VisitPageNoFormRefNeeded ==
    /\ UNCHANGED <<probe_in, probe_out, parked>>
    /\ pc = "page"
    /\ \E r \in PageResponses :
         /\ net' = Append(net, Request("page", headers, NoFile, r))
         /\ IF r.exc THEN Throw(58)
            ELSE IF r.status # HttpOk THEN Return(None, 59)
            ELSE /\ pc' = "handshake"
                 /\ formref' = FirstTag(r.html, "formref")
                 /\ csrf_token' = FirstTag(r.html, "csrf")
                 /\ session' = IF r.cookie # NoneTok THEN r.cookie ELSE session
                 /\ UNCHANGED <<cache, hist, result, retLine, raised, url_case_id, headers,
                                filename_str, target_filename, b64_data, img_bytes>>
    /\ UNCHANGED <<caller, arg, now, prior, shown, calls>>

\* variant: the status of the page is not looked at
VisitPageAnyStatus ==
    /\ UNCHANGED <<probe_in, probe_out, parked>>
    /\ pc = "page"
    /\ \E r \in PageResponses :
         /\ net' = Append(net, Request("page", headers, NoFile, r))
         /\ IF r.exc THEN Throw(58)
            ELSE IF FirstTag(r.html, "formref") = NoneTok THEN Return(None, 63)
            ELSE /\ pc' = "handshake"
                 /\ formref' = FirstTag(r.html, "formref")
                 /\ csrf_token' = FirstTag(r.html, "csrf")
                 /\ session' = IF r.cookie # NoneTok THEN r.cookie ELSE session
                 /\ UNCHANGED <<cache, hist, result, retLine, raised, url_case_id, headers,
                                filename_str, target_filename, b64_data, img_bytes>>
    /\ UNCHANGED <<caller, arg, now, prior, shown, calls>>

\* lines 58-67: GET the wrapper page, then the two regular expressions
VisitPage ==
    /\ UNCHANGED <<probe_in, probe_out, parked>>
    /\ pc = "page"
    /\ \E r \in PageResponses :
         /\ net' = Append(net, Request("page", headers, NoFile, r))
         /\ IF r.exc THEN Throw(58)
            ELSE IF r.status # HttpOk THEN Return(None, 59)
            ELSE IF FirstTag(r.html, "formref") = NoneTok THEN Return(None, 63)
            ELSE /\ pc' = "handshake"
                 /\ formref' = FirstTag(r.html, "formref")
                 /\ csrf_token' = FirstTag(r.html, "csrf")
                 /\ session' = IF r.cookie # NoneTok THEN r.cookie ELSE session
                 /\ UNCHANGED <<cache, hist, result, retLine, raised, url_case_id, headers,
                                filename_str, target_filename, b64_data, img_bytes>>
    /\ UNCHANGED <<caller, arg, now, prior, shown, calls>>

\* variant: a page without a CSRF token ends the attempt
HandshakeNeedsCsrf ==
    /\ UNCHANGED <<probe_in, probe_out, parked>>
    /\ pc = "handshake"
    /\ IF csrf_token = NoneTok
       THEN /\ Return(None, 70)
            /\ UNCHANGED net
       ELSE \E r \in CitizenResponses :
              LET sent == [headers EXCEPT !.csrf = csrf_token]
              IN /\ net' = Append(net, Request("citizen", sent, NoFile, r))
                 /\ pc' = "list"
                 /\ headers' = IF ~r.exc /\ r.auth # NoneTok THEN [sent EXCEPT !.auth = r.auth]
                                ELSE sent
                 /\ UNCHANGED <<cache, hist, result, retLine, raised, url_case_id, formref,
                                csrf_token, session, filename_str, target_filename,
                                b64_data, img_bytes>>
    /\ UNCHANGED <<caller, arg, now, prior, shown, calls>>

\* lines 70-79: the citizen request; its own try swallows every failure
Handshake ==
    /\ UNCHANGED <<probe_in, probe_out, parked>>
    /\ pc = "handshake"
    /\ \E r \in CitizenResponses :
         LET sent == IF csrf_token # NoneTok THEN [headers EXCEPT !.csrf = csrf_token]
                     ELSE headers
         IN /\ net' = Append(net, Request("citizen", sent, NoFile, r))
            /\ IF r.exc
               THEN IF HandlerOf(76) = 79
                    THEN /\ pc' = "list"
                         /\ headers' = sent
                         /\ UNCHANGED <<cache, hist, result, retLine, raised, url_case_id, formref,
                                        csrf_token, session, filename_str, target_filename,
                                        b64_data, img_bytes>>
                    ELSE Throw(76)
               ELSE /\ pc' = "list"
                    /\ headers' = IF r.auth # NoneTok THEN [sent EXCEPT !.auth = r.auth]
                                   ELSE sent
                    /\ UNCHANGED <<cache, hist, result, retLine, raised, url_case_id, formref,
                                   csrf_token, session, filename_str, target_filename,
                                   b64_data, img_bytes>>
    /\ UNCHANGED <<caller, arg, now, prior, shown, calls>>

\* lines 82-103: the listing request and the filename string in its answer
ListFiles ==
    /\ UNCHANGED <<probe_in, probe_out, parked>>
    /\ pc = "list"
    /\ \E r \in ListResponses :
         /\ net' = Append(net, Request("list", headers, NoFile, r))
         /\ IF r.exc THEN Throw(91)
            ELSE IF r.status # HttpOk THEN Return(None, 96)
            ELSE IF r.kind = "malformed" THEN Throw(98)
            ELSE IF r.kind = "badtype" THEN Throw(100)
            ELSE IF r.kind # "text" \/ r.text = <<>> THEN Return(None, 103)
            ELSE /\ pc' = "filter"
                 /\ filename_str' = r.text
                 /\ UNCHANGED <<cache, hist, result, retLine, raised, url_case_id, formref,
                                csrf_token, headers, session, target_filename, b64_data,
                                img_bytes>>
    /\ UNCHANGED <<caller, arg, now, prior, shown, calls>>

\* lines 104-119: split the string and choose the file
Filter ==
    /\ UNCHANGED <<probe_in, probe_out, parked>>
    /\ pc = "filter"
    /\ LET chosen == SelectFilename(filename_str)
       IN IF chosen = NoFile
          THEN Return(None, 119)
          ELSE /\ pc' = "download"
               /\ target_filename' = chosen
               /\ filename_str' = <<>>
               /\ UNCHANGED <<cache, hist, result, retLine, raised, url_case_id, formref,
                              csrf_token, headers, session, b64_data, img_bytes>>
    /\ UNCHANGED <<caller, arg, now, prior, net, shown, calls>>

\* variant: a download request that raised is sent a second time
DownloadRetries ==
    /\ UNCHANGED <<probe_in, probe_out, parked>>
    /\ pc = "download"
    /\ \E r \in DownloadResponses :
         /\ net' = Append(net, Request("download", headers, target_filename, r))
         /\ IF r.exc /\ net[Len(net)].req # "download"
            THEN /\ pc' = "download"
                 /\ UNCHANGED <<cache, hist, result, retLine, raised, Locals>>
            ELSE IF r.exc THEN Throw(125)
            ELSE IF r.status # HttpOk THEN Return(None, 151)
            ELSE IF r.kind = "malformed" THEN Throw(133)
            ELSE IF r.kind = "badtype" THEN Throw(136)
            ELSE IF r.kind # "text" THEN Return(None, 151)
            ELSE /\ pc' = "decode"
                 /\ b64_data' = StripMarker(r.text)
                 /\ UNCHANGED <<cache, hist, result, retLine, raised, url_case_id, formref,
                                csrf_token, headers, session, filename_str, target_filename,
                                img_bytes>>
    /\ UNCHANGED <<caller, arg, now, prior, shown, calls>>

\* lines 122-136: the download request, the JSON of its answer, the marker
Download ==
    /\ UNCHANGED <<probe_in, probe_out, parked>>
    /\ pc = "download"
    /\ \E r \in DownloadResponses :
         /\ net' = Append(net, Request("download", headers, target_filename, r))
         /\ IF r.exc THEN Throw(125)
            ELSE IF r.status # HttpOk THEN Return(None, 151)
            ELSE IF r.kind = "malformed" THEN Throw(133)
            ELSE IF r.kind = "badtype" THEN Throw(136)
            ELSE IF r.kind # "text" THEN Return(None, 151)
            ELSE /\ pc' = "decode"
                 /\ b64_data' = StripMarker(r.text)
                 /\ UNCHANGED <<cache, hist, result, retLine, raised, url_case_id, formref,
                                csrf_token, headers, session, filename_str, target_filename,
                                img_bytes>>
    /\ UNCHANGED <<caller, arg, now, prior, shown, calls>>

\* line 138: base64.b64decode
Decode ==
    /\ UNCHANGED <<probe_in, probe_out, parked>>
    /\ pc = "decode"
    /\ LET d == B64Decode(b64_data)
       IN IF d.err
          THEN Throw(138)
          ELSE /\ pc' = "validate"
               /\ img_bytes' = d.bytes
               /\ b64_data' = <<>>
               /\ UNCHANGED <<cache, hist, result, retLine, raised, url_case_id, formref,
                              csrf_token, headers, session, filename_str, target_filename>>
    /\ UNCHANGED <<caller, arg, now, prior, net, shown, calls>>

\* variant: the decoded bytes are returned without being verified
ValidateAlways ==
    /\ UNCHANGED <<probe_in, probe_out, parked>>
    /\ pc = "validate"
    /\ Return(Bytes(img_bytes), 144)
    /\ UNCHANGED <<caller, arg, now, prior, net, shown, calls>>

\* lines 141-146: verify the bytes as an image, return them untouched
Validate ==
    /\ UNCHANGED <<probe_in, probe_out, parked>>
    /\ pc = "validate"
    /\ IF ImageVerifies(img_bytes)
       THEN Return(Bytes(img_bytes), 144)
       ELSE Throw(143)
    /\ UNCHANGED <<caller, arg, now, prior, net, shown, calls>>

\* lines 267-279: main takes the value and renders
Render ==
    /\ UNCHANGED <<probe_in, probe_out, parked>>
    /\ pc = "returned"
    /\ caller = "main"
    /\ ~raised
    /\ pc' = "render"
    /\ shown' = IF Truthy(result) THEN ShowBytes(result.bytes) ELSE ShowUrl(arg)
    /\ UNCHANGED <<caller, arg, now, cache, hist, prior, net, result, raised, retLine,
                   Locals, calls>>

\* the next record, or the end of a call made on its own
Finish ==
    /\ UNCHANGED <<probe_in, probe_out, parked>>
    /\ \/ pc = "render"
       \/ pc = "returned" /\ caller = "direct"
    /\ pc' = "idle"
    /\ net' = <<>>
    /\ result' = None
    /\ raised' = FALSE
    /\ retLine' = 0
    /\ prior' = NoPrior
    /\ shown' = NoShow
    /\ arg' = NonStr
    /\ caller' = "direct"
    /\ UNCHANGED <<now, cache, hist, Locals, calls>>

\* time passes between calls and while a body runs
Tick ==
    /\ UNCHANGED <<probe_in, probe_out, parked>>
    /\ pc \in {"idle", "body"}
    /\ now + TickStep <= MaxNow
    /\ now' = now + TickStep
    /\ UNCHANGED <<pc, caller, arg, cache, hist, prior, net, result, raised, retLine,
                   Locals, shown, calls>>

Next ==
    \/ \E u \in Inputs : DirectCall(u)
    \/ \E u \in Inputs : MainRow(u)
    \/ Guard
    \/ SyncId
    \/ VisitPage
    \/ Handshake
    \/ ListFiles
    \/ Filter
    \/ Download
    \/ Decode
    \/ Validate
    \/ Render
    \/ Finish
    \/ Tick

Spec == Init /\ [][Next]_vars

----------------------------------------------------------------------------
(* Two script runs at once: Streamlit runs each browser session's script in
   a thread of its own, and the threads take turns *)

\* the portal's answers while two runs are under way
ConcManifests == {NamePhoto, NameMap}
ConcAnswers(n) ==
    \A i \in DOMAIN n :
        LET r == n[i].resp
        IN /\ n[i].req = "page" => ~r.exc /\ r.status = HttpOk
           /\ n[i].req = "list" => r.exc \/ (r.kind = "text" /\ r.text \in ConcManifests)
           /\ n[i].req = "download" => r.exc \/ (r.kind = "text" /\ r.text = PayloadJpeg)

\* variant: the headers are one dict of the module, shared by every run
SwitchSharedHeaders ==
    /\ parked' = Frame
    /\ pc' = parked.pc
    /\ caller' = parked.caller
    /\ arg' = parked.arg
    /\ prior' = parked.prior
    /\ net' = parked.net
    /\ result' = parked.result
    /\ raised' = parked.raised
    /\ retLine' = parked.retLine
    /\ shown' = parked.shown
    /\ url_case_id' = parked.url_case_id
    /\ formref' = parked.formref
    /\ csrf_token' = parked.csrf_token
    /\ headers' = headers
    /\ session' = parked.session
    /\ filename_str' = parked.filename_str
    /\ target_filename' = parked.target_filename
    /\ b64_data' = parked.b64_data
    /\ img_bytes' = parked.img_bytes
    /\ UNCHANGED <<now, cache, hist, calls, probe_in, probe_out>>

\* lines 44-49: session, headers and every other name of the function are
\* locals of the call, so the other run takes the processor with its own
Switch ==
    /\ parked' = Frame
    /\ pc' = parked.pc
    /\ caller' = parked.caller
    /\ arg' = parked.arg
    /\ prior' = parked.prior
    /\ net' = parked.net
    /\ result' = parked.result
    /\ raised' = parked.raised
    /\ retLine' = parked.retLine
    /\ shown' = parked.shown
    /\ url_case_id' = parked.url_case_id
    /\ formref' = parked.formref
    /\ csrf_token' = parked.csrf_token
    /\ headers' = parked.headers
    /\ session' = parked.session
    /\ filename_str' = parked.filename_str
    /\ target_filename' = parked.target_filename
    /\ b64_data' = parked.b64_data
    /\ img_bytes' = parked.img_bytes
    /\ UNCHANGED <<now, cache, hist, calls, probe_in, probe_out>>

NextConc ==
    \/ \E u \in Inputs : MainRow(u)
    \/ Switch
    \/ Guard
    \/ SyncId
    \/ VisitPage /\ ConcAnswers(net')
    \/ Handshake
    \/ ListFiles /\ ConcAnswers(net')
    \/ Filter
    \/ Download /\ ConcAnswers(net')
    \/ Decode
    \/ Validate
    \/ Render
    \/ Finish

SpecConc == Init /\ [][NextConc]_vars

----------------------------------------------------------------------------
(* The selector and the payload decoder applied on their own *)

MaxB64 == 4

AllNames ==
    {NamePhoto, NamePng, NameMap, NameBareM, NameMapJpeg, NameMapPng, NameDoc, NameBlank,
     NamePadded}

SelectProbes ==
    {[fn |-> "select", text |-> Join(m, ";"), marker |-> <<>>] :
        m \in SeqsUpTo(AllNames, MaxFiles)}

MarkerPng ==
    <<"d", "a", "t", "a", ":", "i", "m", "a", "g", "e", "/", "p", "n", "g", ";",
      "b", "a", "s", "e", "6", "4", ",">>

PayloadChars == {"/", "9", "j", "A", "="}

DecodeProbes ==
    {[fn |-> "decode", text |-> t, marker |-> m] :
        t \in SeqsUpTo(PayloadChars, MaxB64), m \in {MarkerJpeg, MarkerPng}}

InitPure ==
    /\ pc = "idle"
    /\ caller = "direct"
    /\ arg = NonStr
    /\ now = 0
    /\ cache = [u \in Inputs |-> NoEntry]
    /\ hist = [u \in Inputs |-> NoEntry]
    /\ prior = NoPrior
    /\ net = <<>>
    /\ result = None
    /\ raised = FALSE
    /\ retLine = 0
    /\ url_case_id = NoneTok
    /\ formref = NoneTok
    /\ csrf_token = NoneTok
    /\ headers = NoHeaders
    /\ session = NoneTok
    /\ filename_str = <<>>
    /\ target_filename = NoFile
    /\ b64_data = <<>>
    /\ img_bytes = <<>>
    /\ shown = NoShow
    /\ calls = 0
    /\ probe_in \in SelectProbes \cup DecodeProbes
    /\ probe_out = NoProbeOut
    /\ parked = IdleFrame

\* lines 103-119 applied to a filename string
ApplySelect ==
    /\ probe_in.fn = "select"
    /\ ~probe_out.done
    /\ probe_out' = [NoProbeOut EXCEPT !.done = TRUE, !.file = SelectFilename(probe_in.text)]
    /\ UNCHANGED <<pc, caller, arg, now, cache, hist, prior, net, result, raised, retLine,
                   Locals, shown, calls, probe_in, parked>>

\* lines 136-138 applied to a payload with a data-URI marker and without it
ApplyDecode ==
    /\ probe_in.fn = "decode"
    /\ ~probe_out.done
    /\ probe_out' = [NoProbeOut EXCEPT !.done = TRUE,
                                       !.marked = DecodePayload(probe_in.marker \o probe_in.text),
                                       !.plain = DecodePayload(probe_in.text)]
    /\ UNCHANGED <<pc, caller, arg, now, cache, hist, prior, net, result, raised, retLine,
                   Locals, shown, calls, probe_in, parked>>

NextPure == ApplySelect \/ ApplyDecode

SpecPure == InitPure /\ [][NextPure]_vars

----------------------------------------------------------------------------
(* Properties *)

\* the answers the current call got to its requests of one kind
Got(name) == {net[i].resp : i \in {j \in DOMAIN net : net[j].req = name}}

\* the body of the function ran in the current call and has ended
BodyEnded == pc \in {"returned", "render"} /\ (retLine # 0 \/ raised)

HasFormRefTag(html) == \E i \in DOMAIN html : html[i].k = "formref"

\* the listed names: the pieces of the filename string, trimmed, blanks dropped
ManifestOf(text) ==
    IF text = <<>> THEN <<>>
    ELSE SelectSeq([i \in DOMAIN Split(text, ";") |-> Strip(Split(text, ";")[i])],
                   LAMBDA f : f # <<>>)

\* a name the loop of lines 108-117 accepts
Acceptable(f) == ~IsMapName(Lower(f)) /\ HasImageExt(Lower(f))

PageGood(p) == ~p.exc /\ p.status = 200 /\ HasFormRefTag(p.html)
ListGood(l) ==
    /\ ~l.exc /\ l.status = 200 /\ l.kind = "text"
    /\ \E i \in DOMAIN ManifestOf(l.text) : Acceptable(ManifestOf(l.text)[i])
PayloadGood(d) == ~d.exc /\ d.status = 200 /\ d.kind = "text"
DecodeGood(d) == PayloadGood(d) /\ ~DecodePayload(d.text).err
ImageGood(d) == DecodeGood(d) /\ ImageVerifies(DecodePayload(d.text).bytes)

\* C1: whatever the input and whatever the portal answers at each request
\* (error status, timeout, malformed page or JSON, missing field, bad base64,
\* corrupt image), no exception leaves the resolver, and a call that has
\* ended has given image bytes or None.
C1_NoExceptionEscapes ==
    /\ ~raised
    /\ pc \in {"returned", "render"} => (result = None \/ (result.ok /\ result.bytes # <<>>))

\* C1 witness: the listing answered with JSON that cannot be parsed and the
\* call still ended with None.
C1_Witness ==
    /\ pc = "returned"
    /\ ~raised
    /\ result = None
    /\ \E l \in Got("list") : l.kind = "malformed"

\* the wrapper-URL shape of the specification: the vendor's host and a case id
WrapperShape(u) == u.isStr /\ u.host = VendorHost /\ CaseIdOf(u.query) # NoneTok

\* C2: a record whose media_url is not of the wrapper-URL shape (vendor host
\* and a caseid parameter) causes no request at all, and what is rendered
\* for it is the media_url itself.
C2_NonWrapperPassesThrough ==
    (caller = "main" /\ ~WrapperShape(arg)) =>
        /\ net = <<>>
        /\ pc = "render" => shown = ShowUrl(arg)

\* C3: once a resolution of an input has ended, with bytes or with None, a
\* call for the same input made before the ttl has passed runs no step of
\* the body, issues no request and gives the same value.
C3_RepeatServedFromCache ==
    prior.has =>
        /\ pc \in {"returned", "render"}
        /\ net = <<>>
        /\ ~raised
        /\ result = prior.value

\* C3 witness: a wrapper URL whose resolution failed is asked for again
\* later, within the ttl.
C3_Witness ==
    /\ pc = "returned"
    /\ prior.has
    /\ prior.value = None
    /\ WrapperShape(arg)
    /\ now > prior.at

\* the reason a returned value carries
ReasonOf(v) == IF "reason" \in DOMAIN v THEN v.reason ELSE "none"

RECURSIVE LastDot(_)
LastDot(f) == IF f = <<>> THEN 0 ELSE IF f[Len(f)] = "." THEN Len(f)
              ELSE LastDot(SubSeq(f, 1, Len(f) - 1))
Stem(f) == IF LastDot(f) = 0 THEN f ELSE SubSeq(f, 1, LastDot(f) - 1)
Ext(f) == IF LastDot(f) = 0 THEN <<>> ELSE SubSeq(f, LastDot(f) + 1, Len(f))

\* the specification's policy: an image extension, and no map thumbnail
\* ("_map" or a bare "m" before the extension)
PolicyEligible(f) ==
    /\ Lower(Ext(f)) \in {<<"j", "p", "g">>, <<"j", "p", "e", "g">>, <<"p", "n", "g">>}
    /\ ~EndsWith(Lower(Stem(f)), <<"_", "m", "a", "p">>)
    /\ ~EndsWith(Lower(Stem(f)), <<"m">>)

\* C5: of a manifest with at least one non-map image name, the selector
\* gives the one that comes last.
C5_LastImageChosen ==
    (probe_out.done /\ probe_in.fn = "select") =>
        LET m == ManifestOf(probe_in.text)
        IN \A i \in DOMAIN m :
             (PolicyEligible(m[i]) /\ \A j \in DOMAIN m : j > i => ~PolicyEligible(m[j]))
                => probe_out.file = m[i]

\* C6: of a manifest that is not empty and has no non-map image name, the
\* selector gives the last name; it gives no name only for an empty manifest.
C6_FallbackToLastName ==
    (probe_out.done /\ probe_in.fn = "select") =>
        LET m == ManifestOf(probe_in.text)
        IN /\ (m # <<>> /\ \A i \in DOMAIN m : ~PolicyEligible(m[i]))
                 => probe_out.file = m[Len(m)]
           /\ probe_out.file = NoFile => m = <<>>

\* C7: a resolution gives bytes exactly when the page came with status 200
\* and a form reference, the listing named an acceptable file, the download
\* came with status 200 and the payload field, the payload decoded and the
\* bytes verified as an image; the bytes are then the decoded payload, and
\* in every other case the value is None.
C7_BytesIffEveryStepSucceeded ==
    BodyEnded =>
        /\ ~raised
        /\ result.ok <=>
              /\ \E p \in Got("page") : PageGood(p)
              /\ \E l \in Got("list") : ListGood(l)
              /\ \E d \in Got("download") : ImageGood(d)
        /\ result.ok =>
              \A d \in Got("download") : result.bytes = DecodePayload(d.text).bytes
        /\ ~result.ok => result = None

\* C7 witness: the four requests were made and the call gave bytes.
C7_Witness ==
    /\ pc = "returned"
    /\ retLine = 144
    /\ result.ok
    /\ Len(net) = 4
    /\ \E d \in Got("download") : HasChar(d.text, ",")

\* C8: bytes that do not verify as an image are never given as the result,
\* and bytes that verify are given exactly as decoded.
C8_OnlyVerifiedBytesUnchanged ==
    /\ (pc \in {"returned", "render"} /\ result.ok) => ImageVerifies(result.bytes)
    /\ BodyEnded =>
          \A d \in Got("download") :
             DecodeGood(d) =>
                result = IF ImageVerifies(DecodePayload(d.text).bytes)
                         THEN Bytes(DecodePayload(d.text).bytes)
                         ELSE None

\* C8 witness: the payload decoded to bytes that are no image, and the call
\* gave None.
C8_Witness ==
    /\ pc = "returned"
    /\ result = None
    /\ \E d \in Got("download") :
          DecodeGood(d) /\ DecodePayload(d.text).bytes # <<>> /\ ~ImageGood(d)

\* C9: a base64 payload with a data-URI marker "<mime>;base64," in front
\* decodes to the same outcome as the payload alone, and a payload without
\* a marker is decoded as it is.
C9_MarkerStripped ==
    (probe_out.done /\ probe_in.fn = "decode") =>
        /\ probe_out.marked = probe_out.plain
        /\ probe_out.plain = B64Decode(probe_in.text)

\* C9 witness: a marked payload that decodes to a JPEG header.
C9_Witness ==
    /\ probe_out.done
    /\ probe_in.fn = "decode"
    /\ ~probe_out.marked.err
    /\ probe_out.marked.bytes = JpegMagic

\* C10: the cache holds one live entry per case id, and a wrapper URL whose
\* case id was resolved under another URL is answered from the cache
\* without any request.
C10_OneEntryPerCaseId ==
    /\ \A u, v \in Inputs :
          (/\ WrapperShape(u) /\ WrapperShape(v)
           /\ CaseIdOf(u.query) = CaseIdOf(v.query)
           /\ CacheLive(cache[u], now) /\ CacheLive(cache[v], now)) => u = v
    /\ (/\ pc = "returned"
        /\ WrapperShape(arg)
        /\ \E v \in Inputs \ {arg} :
              /\ WrapperShape(v)
              /\ CaseIdOf(v.query) = CaseIdOf(arg.query)
              /\ CacheLive(cache[v], now))
       => net = <<>>

\* C11: a failure that is fatal stops the attempt where it happens. When the
\* page request fails, answers with another status than 200 or carries no
\* form reference, no citizen, listing or download request follows; when
\* the listing request fails, lists nothing or lists no name the selection
\* takes, no download request follows; and the attempt ends with None.
C11_FailureShortCircuits ==
    /\ (\E p \in Got("page") : ~PageGood(p)) =>
          /\ Got("citizen") = {} /\ Got("list") = {} /\ Got("download") = {}
          /\ pc \in {"returned", "render"}
          /\ result = None /\ ~raised
    /\ (\E l \in Got("list") : ~ListGood(l)) =>
          /\ Got("download") = {}
          /\ pc \in {"filter", "returned", "render"}
          /\ pc # "filter" => (result = None /\ ~raised)

\* C11 witness: the listing named a map thumbnail only, so that no name was
\* selected, and the attempt ended with None after three requests.
C11_Witness ==
    /\ pc = "returned"
    /\ result = None
    /\ Len(net) = 3
    /\ \E l \in Got("list") : l.kind = "text" /\ l.text = NameMap

\* C12: the citizen request is best-effort. Whatever it answers (an error
\* status, an exception, no Authorization header), the listing request is
\* the next thing the attempt does; and an Authorization value its answer
\* carried is sent with the listing request and with the download request.
C12_AuthorizationBestEffort ==
    \A i \in DOMAIN net :
        net[i].req = "citizen" =>
            /\ ~raised
            /\ \/ Len(net) = i /\ pc = "list"
               \/ Len(net) > i /\ net[i + 1].req = "list"
            /\ (~net[i].resp.exc /\ net[i].resp.auth # NoneTok) =>
                  \A j \in DOMAIN net :
                      (j > i /\ net[j].req \in {"list", "download"}) =>
                          net[j].auth = net[i].resp.auth

\* C12 witness: the citizen request raised, the attempt went on without a
\* credential through listing and download, and ended with bytes.
C12_Witness ==
    /\ pc = "returned"
    /\ result.ok
    /\ Len(net) = 4
    /\ net[2].req = "citizen" /\ net[2].resp.exc
    /\ net[3].req = "list" /\ net[3].auth = NoneTok
    /\ net[4].req = "download" /\ net[4].auth = NoneTok

\* C13 as stated: an attempt in which some request (page, citizen, listing
\* or download) timed out ends with None.
C13_AnyTimeoutGivesNone ==
    (pc \in {"returned", "render"} /\ \E i \in DOMAIN net : net[i].resp.exc) =>
        (result = None /\ ~raised)

\* C13, amended: no timeout lets an exception leave the resolver. A timeout
\* of the page, listing or download request is the last request of the
\* attempt, which ends with None, as for any other failure of that request.
\* A timeout of the citizen request is passed over as any other failure of
\* it is: the listing request follows, without a credential.
C13_TimeoutLikeAnyFailure ==
    \A i \in DOMAIN net :
        net[i].resp.exc =>
            /\ ~raised
            /\ net[i].req \in {"page", "list", "download"} =>
                  /\ Len(net) = i
                  /\ pc \in {"returned", "render"}
                  /\ result = None
            /\ net[i].req = "citizen" =>
                  /\ \/ Len(net) = i /\ pc = "list"
                     \/ Len(net) > i /\ net[i + 1].req = "list"
                  /\ \A j \in DOMAIN net : j > i => net[j].auth = NoneTok

\* C13 witness: the download request timed out, after three requests that
\* were answered, and the attempt ended with None.
C13_Witness ==
    /\ pc = "returned"
    /\ ~raised
    /\ result = None
    /\ Len(net) = 4
    /\ net[4].req = "download" /\ net[4].resp.exc

\* the four requests, in the order of the source
RequestOrder == <<"page", "citizen", "list", "download">>

\* C14: an attempt goes forward only. The requests it has issued are the
\* first ones of page, citizen, listing, download, in that order: none is
\* issued twice, none before an earlier one, none again after a later one.
C14_ForwardOnlyNoRetry ==
    /\ Len(net) <= Len(RequestOrder)
    /\ \A i \in DOMAIN net : net[i].req = RequestOrder[i]

\* C14 witness: an attempt that issued all four requests, each once and in
\* order, and ended with bytes.
C14_Witness ==
    /\ pc = "returned"
    /\ result.ok
    /\ [i \in DOMAIN net |-> net[i].req] = RequestOrder

\* what an attempt obtained for itself, read from the answers in its log
ObtainedAuth(n) ==
    IF \E i \in DOMAIN n : n[i].req = "citizen" /\ ~n[i].resp.exc
    THEN (CHOOSE r \in {n[i].resp : i \in {j \in DOMAIN n : n[j].req = "citizen"}} : TRUE).auth
    ELSE NoneTok

\* the requests of one attempt use what that attempt obtained
OwnSession(n, u) ==
    \A i \in DOMAIN n :
        n[i].req \in {"list", "download"} =>
            /\ n[1].req = "page" /\ ~n[1].resp.exc
            /\ n[i].caseid = CaseIdOf(u.query)
            /\ n[i].formref = FirstTag(n[1].resp.html, "formref")
            /\ n[i].csrf = FirstTag(n[1].resp.html, "csrf")
            /\ n[i].cookie = n[1].resp.cookie
            /\ n[i].auth = ObtainedAuth(n)

\* C15: no session state passes from one attempt to another, whether the
\* two run at once or one after the other: the listing and download
\* requests of an attempt follow a page request of its own and carry the
\* case id of its own URL and the form reference, CSRF token, cookie and
\* Authorization value that its own page and citizen requests obtained.
C15_SessionNotShared ==
    /\ OwnSession(net, arg)
    /\ OwnSession(parked.net, parked.arg)

\* C15 witness: two attempts under way at once, both past their listing
\* request, which hold different tokens, cookies and credentials.
C15_Witness ==
    /\ pc = "download" /\ parked.pc = "download"
    /\ Len(net) = 3 /\ Len(parked.net) = 3
    /\ net[3].csrf # parked.net[3].csrf
    /\ net[3].formref # parked.net[3].formref
    /\ net[3].cookie # parked.net[3].cookie
    /\ net[3].auth # parked.net[3].auth

\* a map thumbnail by the specification's naming convention: an image name
\* whose stem ends in "_map" or in "m", in any letter case
PolicyMap(f) ==
    /\ Lower(Ext(f)) \in {<<"j", "p", "g">>, <<"j", "p", "e", "g">>, <<"p", "n", "g">>}
    /\ \/ EndsWith(Lower(Stem(f)), <<"_", "m", "a", "p">>)
       \/ EndsWith(Lower(Stem(f)), <<"m">>)

\* C16: whatever the manifest, the name the selector gives is no map
\* thumbnail: no image name, with extension jpg, jpeg or png in any letter
\* case, whose stem ends in "_map" or in a bare "m".
C16_MapNeverAccepted ==
    (probe_out.done /\ probe_in.fn = "select" /\ probe_out.file # NoFile) =>
        ~PolicyMap(probe_out.file)

\* C17: a page with a form reference and no CSRF token does not stop the
\* attempt: the citizen request follows it, and no request after the page
\* carries a CSRF header. When the page has a CSRF token, the citizen,
\* listing and download requests all carry that token.
C17_CsrfAbsenceTolerated ==
    (net # <<>> /\ net[1].req = "page" /\ PageGood(net[1].resp)) =>
        /\ \/ Len(net) = 1 /\ pc = "handshake"
           \/ Len(net) > 1 /\ net[2].req = "citizen"
        /\ \A j \in DOMAIN net :
              j > 1 => net[j].csrf = FirstTag(net[1].resp.html, "csrf")

\* C17 witness: the page had no CSRF token and the attempt ended with bytes
\* after a citizen, a listing and a download request without a CSRF header.
C17_Witness ==
    /\ pc = "returned"
    /\ result.ok
    /\ Len(net) = 4
    /\ FirstTag(net[1].resp.html, "csrf") = NoneTok
    /\ \A j \in 2..4 : net[j].csrf = NoneTok

\* C18: a call for an input whose entry was stored a ttl or more ago is not
\* answered with the stored value: the body runs (for a wrapper URL, a new
\* page request, and after a good page a new citizen request), and the
\* value it returns takes the place of the old entry.
C18_ExpiredEntryRefreshed ==
    (pc # "idle" /\ prior.stored /\ now - prior.at >= TTL) =>
        /\ pc \in {"returned", "render"} =>
              /\ retLine # 0 \/ raised
              /\ ~raised => cache[arg] = [has |-> TRUE, value |-> result, at |-> now]
              /\ WrapperShape(arg) =>
                    /\ net # <<>> /\ net[1].req = "page"
                    /\ PageGood(net[1].resp) => (Len(net) > 1 /\ net[2].req = "citizen")

\* C18 witness: a wrapper URL whose resolution had failed is resolved again
\* once the ttl has passed, this time to bytes, which replace the stored None.
C18_Witness ==
    /\ pc = "returned"
    /\ WrapperShape(arg)
    /\ prior.stored /\ prior.value = None
    /\ now - prior.at >= TTL
    /\ result.ok
    /\ cache[arg].value = result

\* C19: for every record of the display loop, what is handed to st.image is
\* the resolver's bytes when the media_url is a vendor wrapper URL and the
\* resolver returned bytes, and is the media_url itself, unchanged, in
\* every other case.
C19_RawUrlUnlessResolved ==
    (pc = "render" /\ caller = "main") =>
        shown = IF WrapperShape(arg) /\ Truthy(result)
                THEN ShowBytes(result.bytes)
                ELSE ShowUrl(arg)

====
